---- MODULE Spec2Model ----
(***************************************************************************)
(* Model of the offline operation queue of src/src/utils/offlineQueue.ts   *)
(* (class OfflineQueueManager): the in-memory queue, its copy in           *)
(* localStorage, the online/offline flag and the drain pass of syncQueue,  *)
(* which is suspended at every await of a RecordService call.              *)
(*                                                                         *)
(* JavaScript runs the class on one thread: every handler runs to its next *)
(* await without interruption, so one action is one such run.              *)
(***************************************************************************)
EXTENDS Integers, Sequences, FiniteSets, TLC

(* ------------------------------ bounds --------------------------------- *)
\* number of queueOperation calls in a behaviour
MaxOps == 2
\* number of page reloads (constructions after the first) in a behaviour
MaxRestarts == 1
\* number of localStorage.setItem calls that throw in a behaviour
MaxWriteFailures == 1
\* number of submissions of the CreateHarvest form in a behaviour
MaxSubmits == 1

(* ----------------------------- constants ------------------------------- *)
MAX_RETRIES == 3

(* ------------------------------ inputs --------------------------------- *)
\* Harvest payloads as CreateHarvest.onSubmit builds them
HarvestA == [cropName |-> "Corn", quantity |-> 12, unit |-> "kg",
             location |-> "Field 1", harvestDate |-> "2024-01-01T00:00:00.000Z"]
\* the harvest the CreateHarvest form is submitted with
HarvestB == [cropName |-> "Rice", quantity |-> 3, unit |-> "tons",
             location |-> "Field 2", harvestDate |-> "2024-02-02T00:00:00.000Z"]
UpdateData == [id |-> "h1", updates |-> [quantity |-> 15]]
DeleteData == [id |-> "h1"]

\* the (type, data) arguments queueOperation is called with
Inputs == { <<"CREATE", HarvestA>>, <<"UPDATE", UpdateData>>, <<"DELETE", DeleteData>> }

(* ------------------------------- state --------------------------------- *)
VARIABLES
  queue,           \* this.queue: sequence of QueuedOperation
  isOnline,        \* this.isOnline
  syncInProgress,  \* this.syncInProgress
  localStorage,    \* content of the slot STORAGE_KEY
  passes,          \* the suspended syncQueue invocations (their local state)
  passLog,         \* history: the RecordService calls of the latest drain pass
  hist,            \* history: per id, what was enqueued and how often it was
                   \*   passed to the RecordService, failed, succeeded, dropped
  writeFailures,   \* number of localStorage.setItem calls that threw
  restarts,        \* number of page reloads so far
  last,            \* history: name of the handler that ran last
  held,            \* history: ids enqueued while offline, no 'online' event since
  reloaded,        \* history: ids that a page reload loaded from storage
  cleared,         \* history: ids that clearQueue removed from this.queue
  woken,           \* history: offline-enqueued ids whose pass an 'online' event started
  offlineRun,      \* history: the queueOperation calls made offline from an empty queue
  during,          \* history: ids enqueued online while a pass was in flight, with
                   \*   no 'offline' event and no reload since
  passStart,       \* history: ids in this.queue when the latest drain pass started
  queueType,       \* what this.queue is: "array", or "null" / "object" after
                   \*   loadQueue assigned it a parsed value that is no array
                   \*   (queue is then <<>>)
  threw,           \* history: some call of this instance threw a TypeError or
                   \*   returned a promise rejected with one
  submits          \* the runs of CreateHarvest.onSubmit: harvest, position, queue id

vars == << queue, isOnline, syncInProgress, localStorage, passes, passLog, hist,
           writeFailures, restarts, last, held, reloaded, cleared, woken,
           offlineRun, during, passStart, queueType, threw, submits >>

(* ------------------------------ helpers -------------------------------- *)
Range(s) == { s[i] : i \in 1..Len(s) }
Ids(q) == { q[i].id : i \in 1..Len(q) }

\* every localStorage.setItem so far succeeded
WritesOk == writeFailures = 0

\* the outcomes a setItem call may have now (the bound on storage failures)
Outcomes == IF writeFailures < MaxWriteFailures THEN BOOLEAN ELSE {TRUE}

(* --------------------------- the Queue Store --------------------------- *)
\* localStorage.getItem returns null: nothing was ever stored
NoItem == [kind |-> "null", items |-> <<>>]

\* mutant of Members: retryCount is written as 0
Members_RetryReset(op) ==
  << <<"id", op.id>>, <<"type", op.type>>, <<"data", op.data>>,
     <<"timestamp", op.timestamp>>, <<"retryCount", 0>> >>

\* the text JSON.stringify writes for one operation: its own enumerable
\* properties as "key":value members, in creation order (every value the
\* callers of this repository enqueue is a string, a finite number or an
\* object of such, which JSON writes without loss)
Members(op) ==
  << <<"id", op.id>>, <<"type", op.type>>, <<"data", op.data>>,
     <<"timestamp", op.timestamp>>, <<"retryCount", op.retryCount>> >>

\* JSON.stringify(this.queue): the text of an array of objects
JSONstringify(q) ==
  [kind |-> "text", items |-> [i \in 1..Len(q) |-> Members(q[i])]]

\* the value of the member named key in the object text obj
Member(obj, key) == obj[CHOOSE i \in 1..Len(obj) : obj[i][1] = key][2]

\* contents of the slot that saveQueue did not write: text that is no JSON,
\* and JSON text that denotes no array (null, an object)
Garbage == [kind |-> "garbage", items |-> <<>>]
JsonNull == [kind |-> "json-null", items |-> <<>>]
JsonObject == [kind |-> "json-object", items |-> <<>>]
ForeignContents == { Garbage, JsonNull, JsonObject }

\* JSON.parse(saved) throws a SyntaxError
ParseThrows(saved) == saved.kind = "garbage"

\* JSON.parse(saved): the array the text denotes, one object per element
\* with the members of its text (<<>> stands in for a value that is no array)
JSONparse(saved) ==
  [i \in 1..Len(saved.items) |->
     [id |-> Member(saved.items[i], "id"), type |-> Member(saved.items[i], "type"),
      data |-> Member(saved.items[i], "data"),
      timestamp |-> Member(saved.items[i], "timestamp"),
      retryCount |-> Member(saved.items[i], "retryCount")]]

\* what kind of value JSON.parse(saved) returns
ParsedType(saved) ==
  CASE saved.kind = "json-null" -> "null"
    [] saved.kind = "json-object" -> "object"
    [] OTHER -> "array"

\* mutant of loadQueue: the stored queue is not read
loadQueue_Empty(saved) == <<>>

\* loadQueue: this.queue stays [] when nothing is stored, is assigned
\* whatever JSON.parse returns, and is [] when JSON.parse throws
loadQueue(saved) ==
  IF saved.kind = "null" \/ ParseThrows(saved) THEN <<>> ELSE JSONparse(saved)

\* what this.queue is after loadQueue
loadQueueType(saved) ==
  IF saved.kind = "null" \/ ParseThrows(saved) THEN "array" ELSE ParsedType(saved)

\* mutant of saveQueue: nothing is written
saveQueue_Skipped(q, ok) == localStorage

\* saveQueue: setItem replaces the slot, or throws (quota) and leaves it; the
\* exception is caught and logged
saveQueue(q, ok) == IF ok THEN JSONstringify(q) ELSE localStorage

(* --------------------------- queueOperation ---------------------------- *)
\* generateId: `offline_${Date.now()}_${random}`, modelled as a fresh token:
\* the number of the queueOperation call
generateId == Len(hist) + 1

\* Date.now(): a logical clock that ticks once per queueOperation call
DateNow == Len(hist) + 1

\* mutant of NewOperation: the new operation starts with one retry counted
NewOperation_Retried(type, data) ==
  [id |-> generateId, type |-> type, data |-> data, timestamp |-> DateNow,
   retryCount |-> 1]

\* the QueuedOperation object queueOperation builds
NewOperation(type, data) ==
  [id |-> generateId, type |-> type, data |-> data, timestamp |-> DateNow,
   retryCount |-> 0]

\* mutant of Push: the operations already queued are stamped anew
Push_Restamp(q, op) ==
  Append([i \in 1..Len(q) |-> [q[i] EXCEPT !.timestamp = op.timestamp + 1]], op)

\* mutant of Push: unshift instead of push
Push_Front(q, op) == << op >> \o q

\* this.queue.push(operation)
Push(q, op) == Append(q, op)

\* mutant of TrySync: queueOperation never calls syncQueue
TrySync_Never(on, sip) == FALSE

\* the test of queueOperation before it calls syncQueue
TrySync(on, sip) == on /\ ~sip

(* ----------------------------- syncQueue ------------------------------- *)
\* mutant of SkipSync: the syncInProgress test is missing
SkipSync_NoProgressTest(on, sip, q) == ~on \/ Len(q) = 0

\* mutant of SkipSync: the isOnline test is missing
SkipSync_NoOnlineTest(on, sip, q) == sip \/ Len(q) = 0

\* the early return of syncQueue
SkipSync(on, sip, q) == ~on \/ sip \/ Len(q) = 0

\* executeOperation: the RecordService call an operation maps to
executeOperation(op) ==
  CASE op.type = "CREATE" -> [fn |-> "createHarvest", args |-> <<op.data>>]
    [] op.type = "UPDATE" -> [fn |-> "updateHarvest", args |-> <<op.data.id, op.data.updates>>]
    [] op.type = "DELETE" -> [fn |-> "deleteHarvest", args |-> <<op.data.id>>]
    [] OTHER -> [fn |-> "throw", args |-> <<>>]

\* the entry of passLog for the call a pass issues for op; h is the set of
\* ids held back offline at that moment
IssueCall(op, h) ==
  [id |-> op.id, call |-> executeOperation(op), result |-> "pending",
   held |-> op.id \in h]

\* hist with one more call counted for id
CountCall(hs, id) == [hs EXCEPT ![id].calls = @ + 1]

\* mutant of RetryAfter: the catch branch does not count the failure
RetryAfter_Never(ok, rc) == rc

\* mutant of RetryAfter: the increment is outside the catch branch
RetryAfter_Always(ok, rc) == rc + 1

\* retryCount of the attempted operation after its await: the try branch
\* leaves it alone, the catch branch does operation.retryCount++
RetryAfter(ok, rc) == IF ok THEN rc ELSE rc + 1

\* mutant of MaxRetriesReached: > for >=
MaxRetriesReached_Late(rc) == rc > MAX_RETRIES

\* mutant of MaxRetriesReached: the cap is reached one failure early
MaxRetriesReached_Early(rc) == rc >= MAX_RETRIES - 1

\* if (operation.retryCount >= MAX_RETRIES)
MaxRetriesReached(rc) == rc >= MAX_RETRIES

\* mutant of ForOfContinues: the loop ends when the engine is offline
ForOfContinues_StopOffline(ok, idx, arr) == isOnline /\ idx < Len(arr)

\* mutant of ForOfContinues: a failed delivery ends the loop
ForOfContinues_AbortOnFailure(ok, idx, arr) == ok /\ idx < Len(arr)

\* whether the for-of takes another operation after the one at idx was
\* handled: the try and the catch branch both fall through to the iterator,
\* which goes on while its index is inside the array
ForOfContinues(ok, idx, arr) == idx < Len(arr)

\* mutant of MarkDelivered: the delivered operation is not marked
MarkDelivered_Forgotten(succ, id) == succ

\* successfulOperations.push(operation.id) of the try branch
MarkDelivered(succ, id) == Append(succ, id)

\* mutant of FilterQueue: only the operations dropped at the cap are removed
FilterQueue_KeepDelivered(q, succ) ==
  SelectSeq(q, LAMBDA op : ~(op.id \in Range(succ) /\ op.retryCount >= MAX_RETRIES))

\* mutant of FilterQueue: nothing passes the filter
FilterQueue_DropAll(q, succ) == <<>>

\* mutant of FilterQueue: the filtered array is dropped, this.queue is kept
FilterQueue_KeepAll(q, succ) == q

\* this.queue.filter(op => !successfulOperations.includes(op.id))
FilterQueue(q, succ) == SelectSeq(q, LAMBDA op : op.id \notin Range(succ))

\* mutant of IterArr: the pass iterates the operations queued at its start
IterArr_FixedAtStart(p) ==
  IF p.aliased THEN SelectSeq(queue, LAMBDA op : op.id \in passStart) ELSE p.arr

\* the array a pass iterates: this.queue itself while this.queue is still
\* the array object the for-of started on, otherwise that older array
IterArr(p) == IF p.aliased THEN queue ELSE p.arr

\* this.queue is assigned a new array: the passes iterating the old one keep it
Detach(ps, old) ==
  [k \in 1..Len(ps) |->
     IF ps[k].aliased THEN [ps[k] EXCEPT !.aliased = FALSE, !.arr = old] ELSE ps[k]]

\* syncQueue() up to its first await, called with this.isOnline = on,
\* this.syncInProgress = sip, this.queue = q and the suspended passes ps;
\* hs is hist and h is held at that moment
syncQueue(on, sip, q, ps, hs, h) ==
  IF SkipSync(on, sip, q)
  THEN /\ syncInProgress' = sip
       /\ passes' = ps
       /\ passLog' = passLog
       /\ passStart' = passStart
       /\ hist' = hs
  ELSE /\ syncInProgress' = TRUE
       /\ passes' = Append(ps, [idx |-> 1, succ |-> <<>>, aliased |-> TRUE,
                                arr |-> <<>>,
                                call |-> IF ps = <<>> THEN 1 ELSE Len(passLog) + 1])
       /\ passLog' = IF ps = <<>> THEN << IssueCall(q[1], h) >>
                      ELSE Append(passLog, IssueCall(q[1], h))
       /\ passStart' = IF ps = <<>> THEN Ids(q) ELSE passStart \cup Ids(q)
       /\ hist' = CountCall(hs, q[1].id)

\* syncQueue() when this.queue is no array (t is "null" or "object"): the
\* early-return test stops at !this.isOnline or this.syncInProgress when one
\* of them is true; otherwise it reads this.queue.length, which throws a
\* TypeError on null and is undefined on an object, so that syncInProgress is
\* set before the for-of throws; the async function returns a rejected promise
SyncThrowsOnNonArray(t, on, sip) == on /\ ~sip
SyncFlagOnNonArray(t, on, sip) == IF on /\ ~sip /\ t = "object" THEN TRUE ELSE sip

\* the history of offline enqueues restarts whenever the queue is empty and idle
RunAfter(q, ps) == [valid |-> (q = <<>> /\ ps = <<>>), ops |-> <<>>]

(* ------------------------------- Init ---------------------------------- *)
\* first page load: nothing stored, navigator.onLine either way
Init ==
  /\ localStorage = NoItem
  /\ queue = loadQueue(NoItem)
  /\ isOnline \in BOOLEAN
  /\ syncInProgress = FALSE
  /\ passes = <<>>
  /\ passLog = <<>>
  /\ hist = <<>>
  /\ writeFailures = 0
  /\ restarts = 0
  /\ last = "constructor"
  /\ held = {}
  /\ reloaded = {}
  /\ cleared = {}
  /\ woken = {}
  /\ offlineRun = RunAfter(<<>>, <<>>)
  /\ during = {}
  /\ passStart = {}
  /\ queueType = "array"
  /\ threw = FALSE
  /\ submits = <<>>

(* ------------------------------ actions -------------------------------- *)
\* whether syncQueue, called in these circumstances, starts a pass
Starts(on, sip, q) == ~SkipSync(on, sip, q)

\* queueOperation(type, data), with the setItem outcome ok
queueOperation(type, data, ok) ==
  /\ Len(hist) < MaxOps
  /\ LET op == NewOperation(type, data)
         q1 == Push(queue, op)
         h1 == IF isOnline THEN held ELSE held \cup {op.id}
         hs1 == Append(hist, [type |-> type, data |-> data, calls |-> 0,
                              fails |-> 0, oks |-> 0, warns |-> 0,
                              saved |-> ok, returned |-> op.id])
         sync == TrySync(isOnline, syncInProgress)
     IN /\ queue' = q1
        /\ localStorage' = saveQueue(q1, ok)
        /\ held' = h1
        /\ IF sync
           THEN syncQueue(isOnline, syncInProgress, q1, passes, hs1, h1)
           ELSE /\ hist' = hs1
                /\ UNCHANGED << syncInProgress, passes, passLog, passStart >>
        /\ woken' = IF sync /\ Starts(isOnline, syncInProgress, q1) THEN {}
                    ELSE { [w EXCEPT !.alone = FALSE] : w \in woken }
        /\ offlineRun' = IF ~isOnline /\ ok /\ offlineRun.valid
                         THEN [valid |-> TRUE, ops |-> Append(offlineRun.ops, op)]
                         ELSE RunAfter(q1, passes')
  /\ writeFailures' = writeFailures + (IF ok THEN 0 ELSE 1)
  /\ during' = IF isOnline /\ syncInProgress THEN during \cup {Len(hist) + 1} ELSE during
  /\ last' = "queueOperation"
  /\ UNCHANGED << isOnline, restarts, reloaded, cleared, queueType, threw >>

\* a caller other than the CreateHarvest page invokes queueOperation
QueueOperationCall(type, data, ok) ==
  /\ queueOperation(type, data, ok)
  /\ UNCHANGED submits

\* a caller invokes the public syncQueue()
SyncQueueCall ==
  /\ syncQueue(isOnline, syncInProgress, queue, passes, hist, held)
  /\ woken' = IF Starts(isOnline, syncInProgress, queue) THEN {} ELSE woken
  /\ offlineRun' = RunAfter(queue, passes')
  /\ last' = "syncQueue"
  /\ UNCHANGED << queue, isOnline, localStorage, writeFailures, restarts, held,
                  reloaded, cleared, during, submits, queueType, threw >>

\* the listener of window's 'online' event
OnlineEvent ==
  /\ isOnline' = TRUE
  /\ held' = {}
  /\ syncQueue(TRUE, syncInProgress, queue, passes, hist, {})
  /\ woken' = IF Starts(TRUE, syncInProgress, queue)
              THEN IF passes = <<>>
                   THEN { [id |-> i, alone |-> Len(queue) = 1] : i \in held \cap Ids(queue) }
                   ELSE {}
              ELSE woken
  /\ offlineRun' = RunAfter(queue, passes')
  /\ last' = "online"
  /\ UNCHANGED << queue, localStorage, writeFailures, restarts, reloaded, cleared,
                  during, submits, queueType, threw >>

\* the listener of window's 'offline' event
OfflineEvent ==
  /\ isOnline' = FALSE
  /\ offlineRun' = RunAfter(queue, passes)
  /\ during' = {}
  /\ last' = "offline"
  /\ UNCHANGED << queue, syncInProgress, localStorage, passes, passLog, hist,
                  writeFailures, restarts, held, reloaded, cleared, woken, passStart,
                  submits, queueType, threw >>

\* clearQueue(), with the setItem outcome ok
clearQueue(ok) ==
  /\ queue' = <<>>
  /\ localStorage' = saveQueue(<<>>, ok)
  /\ writeFailures' = writeFailures + (IF ok THEN 0 ELSE 1)
  /\ passes' = Detach(passes, queue)
  /\ cleared' = cleared \cup Ids(queue)
  /\ offlineRun' = RunAfter(<<>>, passes')
  /\ queueType' = "array"
  /\ last' = "clearQueue"
  /\ UNCHANGED << isOnline, syncInProgress, passLog, hist, restarts, held, reloaded,
                  woken, during, passStart, submits, threw >>

\* mutant of RemoveAt: the invocation that ended stays suspended
RemoveAt_Keep(ps, k) == ps

\* ps without its k-th element
RemoveAt(ps, k) == [i \in 1..(Len(ps) - 1) |-> IF i < k THEN ps[i] ELSE ps[i + 1]]

\* The RecordService call awaited by the k-th suspended pass resolves (ok) or
\* rejects: the pass handles the outcome and runs on to its next await, or to
\* its end, where the setItem outcome is saveOk.
Settle(k, ok, saveOk) ==
  /\ k \in 1..Len(passes)
  /\ passLog[passes[k].call].call.fn = "throw" => ~ok
  /\ LET p == passes[k]
         arr == IterArr(p)
         op == arr[p.idx]
         rc == RetryAfter(ok, op.retryCount)
         dropped == ~ok /\ MaxRetriesReached(rc)
         arr1 == [arr EXCEPT ![p.idx].retryCount = rc]
         succ1 == IF ok THEN MarkDelivered(p.succ, op.id)
                  ELSE IF dropped THEN Append(p.succ, op.id) ELSE p.succ
         q1 == IF p.aliased THEN arr1 ELSE queue
         log1 == [passLog EXCEPT ![p.call].result = IF ok THEN "ok" ELSE "fail"]
         hs1 == [hist EXCEPT ![op.id].oks = @ + (IF ok THEN 1 ELSE 0),
                             ![op.id].fails = @ + (IF ok THEN 0 ELSE 1),
                             ![op.id].warns = @ + (IF dropped THEN 1 ELSE 0)]
     IN IF ForOfContinues(ok, p.idx, arr1)
        THEN \* the for-of takes the next operation and awaits its call
             /\ saveOk
             /\ queue' = q1
             /\ passes' = [passes EXCEPT ![k] =
                             [p EXCEPT !.idx = p.idx + 1, !.succ = succ1,
                                       !.arr = IF p.aliased THEN <<>> ELSE arr1,
                                       !.call = Len(passLog) + 1]]
             /\ passLog' = Append(log1, IssueCall(arr1[p.idx + 1], held))
             /\ hist' = CountCall(hs1, arr1[p.idx + 1].id)
             /\ UNCHANGED << syncInProgress, localStorage, writeFailures >>
        ELSE \* the loop is over: filter, save, clear the flag
             /\ queue' = FilterQueue(q1, succ1)
             /\ localStorage' = saveQueue(queue', saveOk)
             /\ writeFailures' = writeFailures + (IF saveOk THEN 0 ELSE 1)
             /\ syncInProgress' = FALSE
             /\ passes' = Detach(RemoveAt(passes, k), q1)
             /\ passLog' = log1
             /\ hist' = hs1
  /\ offlineRun' = RunAfter(queue', passes')
  /\ last' = "settle"
  /\ UNCHANGED << isOnline, restarts, held, reloaded, cleared, woken, during,
                  passStart, submits, queueType, threw >>

\* The page is reloaded: the old instance and its suspended passes are gone,
\* the constructor runs with navigator.onLine = b.
Restart(b) ==
  /\ restarts < MaxRestarts
  /\ restarts' = restarts + 1
  /\ LET q1 == loadQueue(localStorage)
         t1 == loadQueueType(localStorage)
     IN /\ queue' = q1
        /\ queueType' = t1
        /\ isOnline' = b
        /\ IF t1 = "array"
           THEN /\ syncQueue(b, FALSE, q1, <<>>, hist, {})
                /\ threw' = FALSE
           ELSE /\ syncInProgress' = SyncFlagOnNonArray(t1, b, FALSE)
                /\ threw' = SyncThrowsOnNonArray(t1, b, FALSE)
                /\ passes' = <<>>
                /\ UNCHANGED << passLog, passStart, hist >>
        /\ reloaded' = reloaded \cup Ids(q1)
        /\ offlineRun' = RunAfter(q1, passes')
  /\ held' = {}
  /\ woken' = {}
  /\ during' = {}
  /\ last' = "constructor"
  /\ UNCHANGED << localStorage, writeFailures, cleared, submits >>

Next ==
  \/ \E in \in Inputs, ok \in Outcomes : QueueOperationCall(in[1], in[2], ok)
  \/ SyncQueueCall
  \/ OnlineEvent
  \/ OfflineEvent
  \/ \E ok \in Outcomes : clearQueue(ok)
  \/ \E k \in 1..Len(passes), ok \in BOOLEAN, saveOk \in Outcomes :
       Settle(k, ok, saveOk)
  \/ \E b \in BOOLEAN : Restart(b)

\* every behaviour: page sessions separated by reloads
Spec == Init /\ [][Next]_vars

\* one page session: the instance is constructed once and never reloaded
NextSession ==
  \/ \E in \in Inputs, ok \in Outcomes : QueueOperationCall(in[1], in[2], ok)
  \/ SyncQueueCall
  \/ OnlineEvent
  \/ OfflineEvent
  \/ \E ok \in Outcomes : clearQueue(ok)
  \/ \E k \in 1..Len(passes), ok \in BOOLEAN, saveOk \in Outcomes :
       Settle(k, ok, saveOk)

SpecSession == Init /\ [][NextSession]_vars

\* the RecordService call some suspended pass awaits resolves or rejects
DeliverySettles ==
  \E k \in 1..Len(passes), ok \in BOOLEAN, saveOk \in Outcomes : Settle(k, ok, saveOk)

\* one page session in which every RecordService call eventually resolves or
\* rejects (the promise executeOperation returns is settled)
SpecFair == Init /\ [][NextSession]_vars /\ WF_vars(DeliverySettles)

(* ------------- a slot holding what saveQueue did not write -------------- *)
\* Something other than saveQueue (another version of the page, another
\* script of the origin, the user) writes the slot STORAGE_KEY.
ForeignWrite(c) ==
  /\ restarts < MaxRestarts
  /\ localStorage' = c
  /\ last' = "foreign"
  /\ UNCHANGED << queue, isOnline, syncInProgress, passes, passLog, hist,
                  writeFailures, restarts, held, reloaded, cleared, woken,
                  offlineRun, during, passStart, queueType, threw, submits >>

\* queueOperation while this.queue is no array: this.queue.push throws a
\* TypeError out of queueOperation (queueHarvest, which is async, returns a
\* rejected promise), nothing is queued
QueueOperationOnNonArray ==
  /\ queueType # "array"
  /\ threw' = TRUE
  /\ last' = "queueOperation"
  /\ UNCHANGED << queue, isOnline, syncInProgress, localStorage, passes, passLog,
                  hist, writeFailures, restarts, held, reloaded, cleared, woken,
                  offlineRun, during, passStart, queueType, submits >>

\* syncQueue() while this.queue is no array
SyncQueueOnNonArray ==
  /\ queueType # "array"
  /\ syncInProgress' = SyncFlagOnNonArray(queueType, isOnline, syncInProgress)
  /\ threw' = (threw \/ SyncThrowsOnNonArray(queueType, isOnline, syncInProgress))
  /\ last' = "syncQueue"
  /\ UNCHANGED << queue, isOnline, localStorage, passes, passLog, hist,
                  writeFailures, restarts, held, reloaded, cleared, woken,
                  offlineRun, during, passStart, queueType, submits >>

\* the 'online' listener while this.queue is no array
OnlineEventOnNonArray ==
  /\ queueType # "array"
  /\ isOnline' = TRUE
  /\ syncInProgress' = SyncFlagOnNonArray(queueType, TRUE, syncInProgress)
  /\ threw' = (threw \/ SyncThrowsOnNonArray(queueType, TRUE, syncInProgress))
  /\ last' = "online"
  /\ UNCHANGED << queue, localStorage, passes, passLog, hist, writeFailures,
                  restarts, held, reloaded, cleared, woken, offlineRun, during,
                  passStart, queueType, submits >>

\* getQueueStatus() while this.queue is no array: reading this.queue.length
\* throws a TypeError on null (on an object queueLength is undefined)
GetQueueStatusOnNonArray ==
  /\ queueType = "null"
  /\ threw' = TRUE
  /\ last' = "getQueueStatus"
  /\ UNCHANGED << queue, isOnline, syncInProgress, localStorage, passes, passLog,
                  hist, writeFailures, restarts, held, reloaded, cleared, woken,
                  offlineRun, during, passStart, queueType, submits >>

\* page sessions separated by reloads, with a slot that may hold anything
NextStartup ==
  \/ queueType = "array" /\ NextSession
  \/ \E b \in BOOLEAN : Restart(b)
  \/ \E c \in ForeignContents : ForeignWrite(c)
  \/ QueueOperationOnNonArray
  \/ SyncQueueOnNonArray
  \/ OnlineEventOnNonArray
  \/ GetQueueStatusOnNonArray
  \/ queueType # "array" /\ OfflineEvent
  \/ queueType # "array" /\ \E ok \in Outcomes : clearQueue(ok)

SpecStartup == Init /\ [][NextStartup]_vars

(* ----------------------- the CreateHarvest page ------------------------- *)
\* isOnline() of offlineQueue.ts: navigator.onLine, which the 'online' and
\* 'offline' events keep this.isOnline equal to
navigatorOnLine == isOnline

\* queueHarvest(harvest)
queueHarvest(harvest, ok) == queueOperation("CREATE", harvest, ok)

\* onSubmit up to its first await: online it calls harvestService.createHarvest
\* directly and awaits it, offline it calls offlineQueue.queueHarvest
onSubmit(harvest, ok) ==
  /\ Len(submits) < MaxSubmits
  /\ IF navigatorOnLine
     THEN /\ ok
          /\ submits' = Append(submits, [harvest |-> harvest, at |-> "createHarvest",
                                         queueId |-> 0])
          /\ last' = "onSubmit"
          /\ UNCHANGED << queue, isOnline, syncInProgress, localStorage, passes,
                          passLog, hist, writeFailures, restarts, held, reloaded,
                          cleared, woken, offlineRun, during, passStart,
                          queueType, threw >>
     ELSE /\ queueHarvest(harvest, ok)
          /\ submits' = Append(submits, [harvest |-> harvest, at |-> "queued",
                                         queueId |-> generateId])

\* the createHarvest call awaited by the k-th onSubmit resolves (ok) or
\* rejects: the try block shows the result, the catch block logs the error and
\* shows a toast when navigator.onLine; neither touches the queue
SubmitSettles(k, ok) ==
  /\ k \in 1..Len(submits)
  /\ submits[k].at = "createHarvest"
  /\ submits' = [submits EXCEPT ![k].at = IF ok THEN "created" ELSE "failed"]
  /\ last' = "onSubmit"
  /\ UNCHANGED << queue, isOnline, syncInProgress, localStorage, passes, passLog,
                  hist, writeFailures, restarts, held, reloaded, cleared, woken,
                  offlineRun, during, passStart, queueType, threw >>

\* the queue together with the CreateHarvest page, in one page session
NextPage ==
  \/ NextSession
  \/ \E ok \in Outcomes : onSubmit(HarvestB, ok)
  \/ \E k \in 1..Len(submits), ok \in BOOLEAN : SubmitSettles(k, ok)

SpecPage == Init /\ [][NextPage]_vars

\* getQueueStatus()
getQueueStatus ==
  [isOnline |-> isOnline, queueLength |-> Len(queue), syncInProgress |-> syncInProgress]

\* the ids of the operations in the persisted queue
PersistedIds == Ids(loadQueue(localStorage))

\* every type-correct state
TypeOK ==
  /\ isOnline \in BOOLEAN
  /\ syncInProgress \in BOOLEAN
  /\ Len(hist) <= MaxOps
  /\ Ids(queue) \subseteq 1..Len(hist)
  /\ \A k \in 1..Len(passes) :
       /\ passes[k].idx \in 1..Len(IterArr(passes[k]))
       /\ passes[k].call \in 1..Len(passLog)
       /\ passLog[passes[k].call].result = "pending"
       /\ passLog[passes[k].call].id = IterArr(passes[k])[passes[k].idx].id

(* ------------------------------ claims --------------------------------- *)
\* the operations currently held in memory: in this.queue or in an array a
\* suspended pass still iterates
Live == Range(queue) \cup UNION { Range(IterArr(passes[k])) : k \in 1..Len(passes) }

\* the entries of the latest pass's call log that are for operation id
CallsOf(id) == { i \in 1..Len(passLog) : passLog[i].id = id }

\* C1: an operation enqueued while isOnline is false is not passed to the
\* RecordService before the next 'online' event: no call of a pass was issued
\* for an operation that was still held back offline.
C1_NoCallBeforeOnline ==
  \A i \in 1..Len(passLog) : ~passLog[i].held

\* C2: from an empty queue with no pass running, after n offline
\* queueOperation calls whose storage writes succeed, the in-memory queue and
\* the persisted queue hold exactly those n operations, in call order, each
\* with the type and data of its call and retryCount 0.
C2_OfflineEnqueues ==
  offlineRun.valid =>
    /\ queue = offlineRun.ops
    /\ offlineRun.ops # <<>> =>
         /\ localStorage.kind = "text"
         /\ JSONparse(localStorage) = offlineRun.ops
    /\ \A i \in 1..Len(queue) :
         /\ queue[i].retryCount = 0
         /\ queue[i].type = hist[queue[i].id].type
         /\ queue[i].data = hist[queue[i].id].data
         /\ i < Len(queue) => queue[i].id < queue[i + 1].id

\* C2 witness: two operations were enqueued offline from an empty queue
C2_Witness ==
  /\ offlineRun.valid
  /\ Len(offlineRun.ops) = 2
  /\ Len(queue) = 2
  /\ ~isOnline

\* C3: after queueOperation or clearQueue has returned, and while a pass is
\* suspended on a delivery, the persisted queue equals the in-memory queue,
\* provided storage writes succeed.
C3_PersistedEqualsMemory ==
  (WritesOk /\ (last \in {"queueOperation", "clearQueue"} \/ passes # <<>>))
    => loadQueue(localStorage) = queue

\* the part of C4 that the code satisfies whatever the storage does: an
\* operation that clearQueue did not remove and that failed on every attempt
\* is attempted at most once per pass and at most MAX_RETRIES times, between
\* passes it is queued with retryCount = its failed attempts while these are
\* fewer than MAX_RETRIES, and it is out of this.queue once they are MAX_RETRIES
AlwaysFailing(id) == hist[id].oks = 0 /\ id \notin cleared

RetriedToCap(id) ==
  /\ hist[id].calls <= MAX_RETRIES
  /\ Cardinality(CallsOf(id)) <= 1
  /\ passes = <<>> =>
       IF hist[id].fails < MAX_RETRIES
       THEN \E i \in 1..Len(queue) :
              queue[i].id = id /\ queue[i].retryCount = hist[id].fails
       ELSE /\ hist[id].fails = MAX_RETRIES
            /\ id \notin Ids(queue)

\* C4 as claimed: ... and at the end of its MAX_RETRIES-th pass it is also
\* out of the persisted queue.
C4_Original ==
  \A id \in 1..Len(hist) :
    AlwaysFailing(id) =>
      /\ RetriedToCap(id)
      /\ (passes = <<>> /\ hist[id].fails = MAX_RETRIES) => id \notin PersistedIds

\* C4 as amended: ... and it is out of the persisted queue provided the
\* storage writes succeeded.
C4_RemovedAfterMaxRetries ==
  \A id \in 1..Len(hist) :
    AlwaysFailing(id) =>
      /\ RetriedToCap(id)
      /\ (passes = <<>> /\ hist[id].fails = MAX_RETRIES /\ WritesOk)
           => id \notin PersistedIds

\* C4 witness: an operation has failed MAX_RETRIES times, its last pass is
\* over and it is gone from memory and from storage
C4_Witness ==
  \E id \in 1..Len(hist) :
    /\ AlwaysFailing(id)
    /\ hist[id].fails = MAX_RETRIES
    /\ hist[id].calls = MAX_RETRIES
    /\ passes = <<>>
    /\ WritesOk
    /\ id \notin Ids(queue)
    /\ id \notin PersistedIds

\* C5: retryCount of every operation held in memory equals the number of
\* its failed delivery attempts (a success does not increment it), and an
\* operation that was delivered is out of the queue once its pass is over.
C5_RetryCountIsFailures ==
  /\ \A op \in Live : op.retryCount = hist[op.id].fails
  /\ \A id \in 1..Len(hist) :
       /\ hist[id].oks <= 1
       /\ (hist[id].oks = 1 /\ passes = <<>>) => id \notin Ids(queue)

\* C5 witness: an operation that failed in two passes has just been
\* delivered in its third and still shows retryCount 2
C5_Witness ==
  \E op \in Live :
    /\ hist[op.id].fails = 2
    /\ hist[op.id].oks = 1
    /\ op.retryCount = 2

\* C6: the dropped-operation warning is emitted exactly once for every
\* operation whose retryCount reached MAX_RETRIES, at its last failed attempt,
\* and never for an operation that is delivered or that stays queued.
C6_WarnedOncePerDrop ==
  /\ \A id \in 1..Len(hist) :
       /\ hist[id].warns = (IF hist[id].fails >= MAX_RETRIES THEN 1 ELSE 0)
       /\ hist[id].warns = 1 =>
            /\ hist[id].oks = 0
            /\ hist[id].calls = hist[id].fails
            /\ passes = <<>> => id \notin Ids(queue)
       /\ hist[id].oks > 0 => hist[id].warns = 0
  /\ passes = <<>> => \A op \in Range(queue) : hist[op.id].warns = 0

\* C6 witness: one operation was dropped with a warning, another one failed
\* without reaching the cap and stays queued
C6_Witness ==
  /\ passes = <<>>
  /\ \E id \in 1..Len(hist) : hist[id].warns = 1 /\ id \notin cleared
  /\ \E op \in Range(queue) : hist[op.id].fails > 0

\* C7: within one pass the RecordService calls are issued in enqueue order
\* (ids are handed out in enqueue order), each after the one before it has
\* resolved or rejected.
C7_CallsInQueueOrder ==
  \A i, j \in 1..Len(passLog) :
    i < j => /\ passLog[i].id < passLog[j].id
             /\ passLog[i].result # "pending"

\* C7 witness: a pass has issued the calls for two operations
C7_Witness ==
  /\ Len(passLog) >= 2
  /\ passes # <<>>

\* what C8 says of a CREATE operation that was enqueued offline and whose
\* pass an 'online' event started, apart from the persisted queue: one
\* createHarvest call with the payload as enqueued, removal on success, and
\* an empty queue after the pass when it was the only operation
WokenCreate(w) ==
  /\ Cardinality(CallsOf(w.id)) <= 1
  /\ \A i \in CallsOf(w.id) :
       passLog[i].call = [fn |-> "createHarvest", args |-> << hist[w.id].data >>]
  /\ passes = <<>> =>
       /\ Cardinality(CallsOf(w.id)) = 1
       /\ hist[w.id].oks = 1 => w.id \notin Ids(queue)
       /\ (hist[w.id].oks = 1 /\ w.alone /\ last = "settle") =>
            /\ Len(queue) = 0
            /\ getQueueStatus.queueLength = 0

\* C8 as claimed: ... and the persisted queue length is 0 after the pass too.
C8_Original ==
  \A w \in woken :
    hist[w.id].type = "CREATE" =>
      /\ WokenCreate(w)
      /\ (passes = <<>> /\ hist[w.id].oks = 1 /\ w.alone /\ last = "settle")
           => Len(loadQueue(localStorage)) = 0

\* C8 as amended: ... and the persisted queue length is 0 after the pass
\* provided the storage writes succeeded.
C8_OnlineDeliversCreate ==
  \A w \in woken :
    hist[w.id].type = "CREATE" =>
      /\ WokenCreate(w)
      /\ (passes = <<>> /\ hist[w.id].oks = 1 /\ w.alone /\ last = "settle" /\ WritesOk)
           => Len(loadQueue(localStorage)) = 0

\* C8 witness: the only queued operation, a CREATE enqueued offline, was
\* delivered by the pass that the 'online' event started
C8_Witness ==
  \E w \in woken :
    /\ hist[w.id].type = "CREATE"
    /\ w.alone
    /\ hist[w.id].oks = 1
    /\ passes = <<>>
    /\ last = "settle"
    /\ WritesOk
    /\ Len(loadQueue(localStorage)) = 0

\* C9: at most one drain pass is active, syncInProgress is true exactly
\* while it is, and at most one delivery call is outstanding.
C9_OnePass ==
  /\ Len(passes) <= 1
  /\ syncInProgress <=> passes # <<>>
  /\ Cardinality({ i \in 1..Len(passLog) : passLog[i].result = "pending" }) <= 1

\* C9 witness: syncQueue was called while a pass was at its second operation
C9_Witness ==
  /\ last = "syncQueue"
  /\ syncInProgress
  /\ Len(passes) = 1
  /\ passes[1].idx = 2

\* C10: a syncQueue call made while offline, while a pass runs or while the
\* queue is empty changes nothing and makes no RecordService call; the same
\* holds for the syncQueue call of the 'online' listener while a pass runs or
\* while the queue is empty.
C10_SyncQueueNoop ==
  [][ /\ (last' = "syncQueue" /\ (~isOnline \/ syncInProgress \/ Len(queue) = 0))
        => UNCHANGED << queue, localStorage, isOnline, syncInProgress, passes,
                        passLog, hist >>
      /\ (last' = "online" /\ (syncInProgress \/ Len(queue) = 0))
        => UNCHANGED << queue, localStorage, syncInProgress, passes, passLog, hist >>
    ]_vars

\* C10 witness: syncQueue was called offline with a non-empty queue
C10_Witness ==
  /\ last = "syncQueue"
  /\ ~isOnline
  /\ queue # <<>>
  /\ passes = <<>>

\* C11: an operation enqueued while a drain pass was in flight, the engine
\* online ever since, is not left in the queue unattempted once the running
\* pass has ended: with no pass running, every such operation still queued has
\* been passed to the RecordService at least once.
C11_AttemptedByPassEnd ==
  passes = <<>> => \A id \in during \cap Ids(queue) : hist[id].calls > 0

\* the operation id left the queue, or the engine went offline again
GoneOrOffline(id) == id \notin Ids(queue) \/ ~isOnline

\* C12 as claimed: once an 'online' event has arrived and the engine stays
\* online, every queued operation eventually leaves the queue, with no further
\* enqueue or connectivity event needed.
C12_Original ==
  \A id \in 1..MaxOps :
    (last = "online" /\ id \in Ids(queue)) ~> GoneOrOffline(id)

\* C12 as amended: once an 'online' event has arrived with no pass running
\* that clearQueue cut off from this.queue, and the engine stays online, the
\* pass eventually ends and every operation queued at the event has by then
\* left the queue or is still queued after a failed attempt, with a
\* retryCount between 1 and MAX_RETRIES - 1.
C12_OnlineDrainsOnce ==
  \A id \in 1..MaxOps :
    (last = "online" /\ id \in Ids(queue) /\ \A k \in 1..Len(passes) : passes[k].aliased)
      ~> \/ GoneOrOffline(id)
         \/ /\ passes = <<>>
            /\ \E i \in 1..Len(queue) :
                 /\ queue[i].id = id
                 /\ queue[i].retryCount \in 1..(MAX_RETRIES - 1)

\* C12 witness: the pass an 'online' event started for an operation enqueued
\* offline has ended with the engine still online, and the operation, whose
\* delivery failed, is still queued
C12_Witness ==
  /\ isOnline
  /\ passes = <<>>
  /\ last = "settle"
  /\ \E w \in woken :
       /\ hist[w.id].fails = 1
       /\ \E i \in 1..Len(queue) : queue[i].id = w.id /\ queue[i].retryCount = 1

\* C13: when a harvest is submitted while online and the immediate
\* createHarvest call fails, a CREATE operation carrying that harvest is added
\* to the queue: after the failure the harvest is the data of an operation
\* that was enqueued.
C13_FailedSubmitIsQueued ==
  \A k \in 1..Len(submits) :
    submits[k].at = "failed" =>
      \E id \in 1..Len(hist) :
        hist[id].type = "CREATE" /\ hist[id].data = submits[k].harvest

\* C14: a storage write failure in queueOperation does not stop the call and
\* does not roll back the in-memory queue: the call returns the new id, the
\* operation is at the tail of this.queue and counted in queueLength, it stays
\* in memory until it is delivered, dropped at the cap or cleared, and a pass
\* that started with it in the queue has attempted it exactly once when it ends.
C14_WriteFailureKeepsOperation ==
  \A id \in 1..Len(hist) :
    ~hist[id].saved =>
      /\ hist[id].returned = id
      /\ (last = "queueOperation" /\ id = Len(hist)) =>
           /\ queue # <<>>
           /\ queue[Len(queue)].id = id
           /\ queue[Len(queue)].retryCount = 0
           /\ getQueueStatus.queueLength = Len(queue)
      /\ id \notin Ids(queue) =>
           \/ hist[id].oks = 1
           \/ hist[id].fails = MAX_RETRIES
           \/ id \in cleared
      /\ (id \in passStart /\ passes = <<>>) => Cardinality(CallsOf(id)) = 1

\* C14 witness: an operation whose write failed at enqueue time, offline, was
\* attempted by the pass that started later, failed, and is still queued
C14_Witness ==
  \E id \in 1..Len(hist) :
    /\ ~hist[id].saved
    /\ id \in passStart
    /\ passes = <<>>
    /\ hist[id].calls = 1
    /\ hist[id].fails = 1
    /\ \E i \in 1..Len(queue) : queue[i].id = id /\ queue[i].retryCount = 1

\* C15: whatever the storage slot holds at startup, construction completes
\* and leaves this.queue a sequence of operations, the persisted list when it
\* parses and the empty sequence when nothing is stored or parsing fails, and
\* no later queueOperation, syncQueue or getQueueStatus call fails on it.
C15_StartupYieldsQueue ==
  /\ queueType = "array"
  /\ ~threw
  /\ last = "constructor" =>
       queue = (IF localStorage.kind = "text" THEN JSONparse(localStorage) ELSE <<>>)

\* the step ran saveQueue: queueOperation, clearQueue, or the end of a pass
Saves == last' \in {"queueOperation", "clearQueue"} \/ (passes # <<>> /\ passes' = <<>>)

\* loading what is stored and saving it again stores the same list
LoadThenSave ==
  localStorage.kind = "text" => JSONstringify(loadQueue(localStorage)) = localStorage

C17_RetryCountMonotone ==
  [][ /\ \A i \in 1..Len(queue), j \in 1..Len(queue') :
           queue[i].id = queue'[j].id => queue'[j].retryCount >= queue[i].retryCount
      /\ \A j \in 1..Len(queue') :
           /\ queue'[j].retryCount <= MAX_RETRIES
           /\ passes' = <<>> => queue'[j].retryCount < MAX_RETRIES ]_vars

\* C18: over enqueues, connectivity events, passes and page reloads, no
\* operation is passed to the RecordService more than MAX_RETRIES times.
C18_AtMostMaxRetriesCalls ==
  \A id \in 1..Len(hist) : hist[id].calls <= MAX_RETRIES

\* the counters of the calls made so far, per operation
Counters(hs) ==
  [id \in 1..Len(hs) |-> << hs[id].calls, hs[id].fails, hs[id].oks, hs[id].warns >>]

\* C19: a queueOperation(type, data) call appends exactly one operation,
\* with the given type and data and retryCount 0, at the tail of this.queue,
\* writes the queue to storage (the slot holds it afterwards unless setItem
\* threw), and returns the id of that operation; when isOnline is true and no
\* pass is running it starts a pass, otherwise none; and it returns before any
\* delivery completes: a call it started is still pending and no other call
\* was settled.
C19_QueueOperation ==
  [][ (last' = "queueOperation" /\ Len(hist') = Len(hist) + 1) =>
        LET id == Len(hist')
            op == queue'[Len(queue')]
        IN /\ Len(queue') = Len(queue) + 1
           /\ SubSeq(queue', 1, Len(queue)) = queue
           /\ op.id = id /\ id \notin Ids(queue)
           /\ op.type = hist'[id].type /\ op.data = hist'[id].data
           /\ <<op.type, op.data>> \in Inputs
           /\ op.retryCount = 0
           /\ hist'[id].returned = op.id
           /\ IF writeFailures' = writeFailures
              THEN loadQueue(localStorage') = queue'
              ELSE localStorage' = localStorage
           /\ IF isOnline /\ ~syncInProgress
              THEN /\ syncInProgress'
                   /\ Len(passes') = Len(passes) + 1
                   /\ passLog' = << IssueCall(queue'[1], held') >>
                   /\ Counters(hist') =
                        [(Counters(hist) \o << <<0, 0, 0, 0>> >>)
                           EXCEPT ![queue'[1].id] = << @[1] + 1, @[2], @[3], @[4] >>]
              ELSE /\ UNCHANGED << syncInProgress, passes, passLog >>
                   /\ Counters(hist') = Counters(hist) \o << <<0, 0, 0, 0>> >>
           /\ UNCHANGED isOnline ]_vars

\* C19 witness: queueOperation, called online with no pass running and one
\* operation already queued, has returned: the new operation is at the tail
\* and the pass it started awaits its first call
C19_Witness ==
  /\ last = "queueOperation"
  /\ Len(queue) = 2
  /\ queue[1].retryCount = 1
  /\ queue[2].retryCount = 0
  /\ queue[2].id = Len(hist)
  /\ syncInProgress
  /\ Len(passLog) = 1
  /\ passLog[1].result = "pending"
  /\ passLog[1].id = queue[1].id

\* the step is a delivery that failed for operation id
FailedStep(id) == id \in 1..Len(hist) /\ hist'[id].fails = hist[id].fails + 1

\* C20: a delivery failure does not abort the pass: after a failed call the
\* pass awaits the call for the next operation of the array, or it has ended
\* because the failed operation was the last one; when a pass has ended every
\* operation that was in the queue when it started has been attempted exactly
\* once in it (and at most once while it runs); and a failure changes nothing
\* of any operation except the retryCount of the one that failed, by one.
C20_FailureDoesNotAbort ==
  [][ /\ \A id \in 1..MaxOps :
           FailedStep(id) =>
             /\ \/ /\ passes' # <<>>
                   /\ passes'[1].idx = passes[1].idx + 1
                   /\ passLog'[passes'[1].call].result = "pending"
                \/ /\ passes' = <<>>
                   /\ passes[1].idx = Len(IterArr(passes[1]))
             /\ \A op \in Live' : \E old \in Live :
                  /\ old.id = op.id
                  /\ op = IF op.id = id THEN [old EXCEPT !.retryCount = @ + 1] ELSE old
      /\ \A id \in passStart' :
           /\ Cardinality({ i \in 1..Len(passLog') : passLog'[i].id = id }) <= 1
           /\ passes' = <<>> =>
                Cardinality({ i \in 1..Len(passLog') : passLog'[i].id = id }) = 1 ]_vars

\* C20 witness: a pass that started with two operations in the queue has
\* ended; the first delivery failed and the second was still made
C20_Witness ==
  /\ passes = <<>>
  /\ last = "settle"
  /\ Cardinality(passStart) = 2
  /\ Len(passLog) = 2
  /\ passLog[1].result = "fail"
  /\ passLog[2].result = "ok"
  /\ passLog[1].id \in Ids(queue)

\* C21: every drain pass that has started eventually completes, provided
\* every delivery call eventually resolves or rejects: syncInProgress is true
\* for as long as a pass is suspended on a delivery call, and once true it is
\* eventually false again with no pass left, whatever the outcomes of the
\* deliveries and of the storage writes.
C21_PassCompletes ==
  /\ [](passes # <<>> => syncInProgress)
  /\ syncInProgress ~> (~syncInProgress /\ passes = <<>>)

\* C21 witness: a pass over two operations has completed although a delivery
\* failed and the storage write at its end threw
C21_Witness ==
  /\ ~syncInProgress
  /\ passes = <<>>
  /\ last = "settle"
  /\ Len(passLog) = 2
  /\ \E i \in 1..Len(passLog) : passLog[i].result = "fail"
  /\ writeFailures = 1
  /\ loadQueue(localStorage) # queue

\* the number of RecordService calls made so far, per operation enqueued by now
CallCounts(hs, n) == [id \in 1..n |-> IF id <= Len(hs) THEN hs[id].calls ELSE 0]

\* C22: the constructor leaves in this.queue the persisted queue; when the
\* environment is online and that queue is not empty, it has started a pass
\* (the call for the first operation is pending) with no connectivity event;
\* when the environment is offline it has started none, and from an offline
\* state with no pass running no RecordService call is made by any step other
\* than an 'online' event.
C22_Startup ==
  [][ /\ last' = "constructor" =>
           /\ queue' = (IF localStorage.kind = "text" THEN JSONparse(localStorage) ELSE <<>>)
           /\ (isOnline' /\ queue' # <<>>) =>
                /\ syncInProgress'
                /\ Len(passes') = 1
                /\ passLog' = << IssueCall(queue'[1], {}) >>
                /\ CallCounts(hist', Len(hist')) =
                     [CallCounts(hist, Len(hist)) EXCEPT ![queue'[1].id] = @ + 1]
           /\ (~isOnline' \/ queue' = <<>>) =>
                /\ ~syncInProgress'
                /\ passes' = <<>>
                /\ CallCounts(hist', Len(hist')) = CallCounts(hist, Len(hist))
      /\ (~isOnline /\ passes = <<>> /\ last' \notin {"online", "constructor"}) =>
           /\ ~isOnline'
           /\ passes' = <<>>
           /\ CallCounts(hist', Len(hist')) = CallCounts(hist, Len(hist')) ]_vars

\* C22 witness: a page reload, online, has loaded a queue of two operations
\* and its constructor has started a pass
C22_Witness ==
  /\ last = "constructor"
  /\ restarts = 1
  /\ isOnline
  /\ Len(queue) = 2
  /\ syncInProgress
  /\ Len(passLog) = 1
  /\ passLog[1].result = "pending"
  /\ passLog[1].id = queue[1].id

\* C23: from one state to the next an operation that stays in the queue
\* keeps its id, type, data and timestamp (those it was enqueued with); its
\* retryCount changes only in a step in which its delivery failed, by one;
\* and queueOperation leaves the operations already queued as they are, in
\* place, also while a pass is in flight.
C23_QueuedOperationFrame ==
  [][ /\ \A i \in 1..Len(queue), j \in 1..Len(queue') :
           queue[i].id = queue'[j].id =>
             /\ queue'[j].type = queue[i].type
             /\ queue'[j].data = queue[i].data
             /\ queue'[j].timestamp = queue[i].timestamp
             /\ queue'[j].type = hist[queue[i].id].type
             /\ queue'[j].data = hist[queue[i].id].data
             /\ queue'[j].retryCount # queue[i].retryCount =>
                  /\ FailedStep(queue[i].id)
                  /\ queue'[j].retryCount = queue[i].retryCount + 1
      /\ last' = "queueOperation" =>
           /\ Len(queue') = Len(queue) + 1
           /\ SubSeq(queue', 1, Len(queue)) = queue ]_vars

\* C23 witness: queueOperation was called while a pass was in flight on an
\* operation that had failed before
C23_Witness ==
  /\ last = "queueOperation"
  /\ passes # <<>>
  /\ Len(queue) = 2
  /\ queue[1].retryCount = 1
  /\ during = {queue[2].id}
  /\ passLog[passes[1].call].id = queue[1].id

\* C24: an 'offline' event changes nothing but isOnline; a pass in flight
\* while the engine is offline goes on as it would online: after each call it
\* awaits the call for the next operation of its array until the last one was
\* handled, and a failed call increments the retryCount of its operation,
\* which is dropped with a warning when that reaches MAX_RETRIES.
C24_OfflineDuringPass ==
  [][ /\ last' = "offline" =>
           /\ ~isOnline'
           /\ UNCHANGED << queue, syncInProgress, localStorage, passes, passLog, hist >>
      /\ (~isOnline /\ passes # <<>> /\ last' = "settle") =>
           /\ \/ /\ passes' # <<>>
                 /\ passes'[1].idx = passes[1].idx + 1
                 /\ passLog'[passes'[1].call].result = "pending"
                 /\ Len(passLog') = Len(passLog) + 1
              \/ /\ passes' = <<>>
                 /\ ~syncInProgress'
                 /\ passes[1].idx = Len(IterArr(passes[1]))
           /\ \A id \in 1..Len(hist) :
                FailedStep(id) =>
                  /\ \A op \in Live' : op.id = id => op.retryCount = hist'[id].fails
                  /\ hist'[id].warns = (IF hist'[id].fails >= MAX_RETRIES THEN 1 ELSE 0)
                  /\ (hist'[id].fails >= MAX_RETRIES /\ passes' = <<>>)
                       => id \notin Ids(queue') ]_vars

\* C24 witness: the engine went offline during a pass, and in that pass an
\* operation failed for the third time and was dropped
C24_Witness ==
  /\ ~isOnline
  /\ last = "settle"
  /\ passes = <<>>
  /\ \E id \in 1..Len(hist) :
       /\ hist[id].fails = MAX_RETRIES
       /\ hist[id].warns = 1
       /\ id \notin cleared
       /\ id \notin Ids(queue)
       /\ passLog[Len(passLog)].id = id

\* the ids of the operations of q, in order
IdSeq(q) == [i \in 1..Len(q) |-> q[i].id]

\* C25: when a pass during which clearQueue was not called ends, it has
\* issued exactly one call for every operation of the queue, those appended
\* while it was suspended included, in queue order, so that an appended
\* operation was attempted after all operations queued before it.
C25_AppendedDuringPass ==
  [][ (passes # <<>> /\ passes' = <<>> /\ passes[1].aliased) =>
        /\ IdSeq(passLog') = IdSeq(queue)
        /\ passStart \subseteq Ids(queue)
        /\ \A i \in 1..Len(queue), k \in 1..Len(passLog') :
             (queue[i].id \notin passStart /\ passLog'[k].id \in passStart) => k < i ]_vars

\* C25 witness: a pass that started with one operation in the queue has
\* ended after two calls, the second one for an operation appended during it
C25_Witness ==
  /\ passes = <<>>
  /\ last = "settle"
  /\ cleared = {}
  /\ Cardinality(passStart) = 1
  /\ Len(passLog) = 2
  /\ passLog[1].id \in passStart
  /\ passLog[2].id \notin passStart
  /\ passLog[2].result # "pending"

\* the ids that the pass whose call log is log delivered, or dropped at the cap
Removable(log, hs) ==
  { log[k].id : k \in { n \in 1..Len(log) :
       \/ log[n].result = "ok"
       \/ log[n].result = "fail" /\ hs[log[n].id].fails >= MAX_RETRIES } }

\* C26: the end of a pass removes from the queue exactly the operations
\* that the pass delivered or whose retryCount reached MAX_RETRIES in it; the
\* others (failed below the cap, or not attempted by the pass) stay, in their
\* order and unchanged but for the retryCount of a failed one.
C26_PassEndRemoves ==
  [][ (passes # <<>> /\ passes' = <<>>) =>
        /\ IdSeq(queue') =
             IdSeq(SelectSeq(queue, LAMBDA op : op.id \notin Removable(passLog', hist')))
        /\ \A j \in 1..Len(queue') : \E i \in 1..Len(queue) :
             /\ queue[i].id = queue'[j].id
             /\ queue'[j] = [queue[i] EXCEPT !.retryCount = hist'[queue[i].id].fails]
             /\ queue'[j].retryCount < MAX_RETRIES
             /\ hist'[queue'[j].id].oks = 0 ]_vars

\* C26 witness: a pass over two operations has ended; the first was
\* delivered and removed, the second failed below the cap and stays
C26_Witness ==
  /\ passes = <<>>
  /\ last = "settle"
  /\ Len(passLog) = 2
  /\ passLog[1].result = "ok"
  /\ passLog[2].result = "fail"
  /\ IdSeq(queue) = << passLog[2].id >>
  /\ queue[1].retryCount = 1

\* C27: whenever syncInProgress is false and every storage write so far has
\* succeeded, loading the slot yields the in-memory queue: the same
\* operations in the same order with the same retryCount.
C27_IdlePersistedEqualsMemory ==
  (~syncInProgress /\ WritesOk) => loadQueue(localStorage) = queue

\* C27 witness: between passes, all writes having succeeded, the queue
\* holds two operations, the first one with two failures counted
C27_Witness ==
  /\ ~syncInProgress
  /\ WritesOk
  /\ last = "settle"
  /\ Len(queue) = 2
  /\ queue[1].retryCount = 2
  /\ loadQueue(localStorage) = queue

\* C28: within one page session an operation whose RecordService call
\* succeeded is never passed to the RecordService again: a pass issues at most
\* one call per operation, no call is counted for an operation after its
\* success, and the operation is out of this.queue whenever syncInProgress is
\* false, that is before a later pass can start.
C28_DeliveredOnce ==
  /\ [](\A id \in 1..Len(hist) :
          /\ Cardinality(CallsOf(id)) <= 1
          /\ (hist[id].oks >= 1 /\ ~syncInProgress) => id \notin Ids(queue))
  /\ [][ \A id \in 1..Len(hist) :
            hist[id].oks >= 1 => /\ hist'[id].calls = hist[id].calls
                                 /\ hist'[id].oks = 1 ]_vars

\* C28 witness: a pass that started after an operation was delivered is
\* running, and the delivered operation is in no array
C28_Witness ==
  \E id \in 1..Len(hist) :
    /\ hist[id].oks = 1
    /\ passes # <<>>
    /\ passStart # {}
    /\ id \notin passStart
    /\ id \notin Ids(queue)
    /\ \A op \in Live : op.id # id

\* a clearQueue call leaves this.queue empty and, its storage write having
\* succeeded, the persisted queue empty
ClearEmpties ==
  last' = "clearQueue" =>
    /\ queue' = <<>>
    /\ writeFailures' = writeFailures => loadQueue(localStorage') = <<>>

\* no RecordService call is issued for an operation that an earlier
\* clearQueue call removed
NoCallAfterClear ==
  \A id \in cleared : hist'[id].calls = hist[id].calls

\* the end of a pass leaves in this.queue every operation that the pass has
\* not attempted
PassEndKeepsUnattempted ==
  (passes # <<>> /\ passes' = <<>>) =>
    \A i \in 1..Len(queue) :
      hist'[queue[i].id].calls = 0 => \E j \in 1..Len(queue') : queue'[j] = queue[i]

\* C29: after clearQueue has returned, this.queue and the persisted queue are
\* empty and no operation queued before the call is passed to the
\* RecordService afterwards, also when a pass was in flight at the call; an
\* operation enqueued after the clear is not removed by the end of that pass.
C29_ClearStopsDelivery ==
  [][ ClearEmpties /\ NoCallAfterClear /\ PassEndKeepsUnattempted ]_vars

====
